---- MODULE Spec2Model ----
\* A model of easypsyco (src/easypsyco/easypsyco.py): the nested resource
\* scopes Database -> Session -> Transaction -> cursor, the Select row source
\* that opens and closes them, the GlobalSession singleton, the Queryable
\* mock and the bulk insert helper.  Python objects live in heaps (sequences
\* indexed by object id, 0 is None); every handler is an operator from a heap
\* record to a result [w, raised, ret], so that try/finally blocks compose the
\* way the interpreter runs them.  Assertions are enabled (the default build).
EXTENDS Integers, Sequences, FiniteSets, TLC

VARIABLES
    conn,         \* driver connections handed out by factories / psycopg2.connect
    cursor,       \* driver cursors
    database,     \* Database objects
    session,      \* Session objects
    transaction,  \* Transaction objects
    select,       \* Select objects
    stack,        \* the caller's open with-blocks, innermost last
    gs,           \* GlobalSession class attributes
    mock,         \* QueryableMock._fakes, the query text, the SelectMock and its rows
    ins,          \* the insert helper's input and the calls its cursor saw
    last,         \* the operation that ran last and how it ended
    faults        \* driver failures and failed with-bodies so far

vars == <<conn, cursor, database, session, transaction, select, stack, gs, mock, ins, last, faults>>

----------------------------------------------------------------------------
\* Bounds

MaxConns == 2      \* connections the factories may open
MaxTransactions == 2  \* Transaction objects (Session.__enter__ calls)
MaxCursors == 2    \* driver cursors
MaxSelects == 1    \* Select objects
MaxFaults == 2     \* driver calls that raise plus with-bodies that raise
MaxFakes == 2      \* patterns registered in a mock
MaxMockRows == 2   \* rows registered under one pattern
MaxLoops == 2      \* for-loops run over one row source
MaxInsertRows == 2 \* rows handed to insert

----------------------------------------------------------------------------
\* Python values

None == 0
NoExc == "None"
BodyError == "BodyError"
ErrCursor == "cursor() raised"
ErrCursorExit == "cursor.__exit__ raised"
ErrConnExit == "conn.__exit__ raised"
ErrConnClose == "conn.close raised"

\* which driver calls fail during one handler
Failures == [cursor : BOOLEAN, curexit : BOOLEAN, hook : BOOLEAN, close : BOOLEAN]
NoFailure == [cursor |-> FALSE, curexit |-> FALSE, hook |-> FALSE, close |-> FALSE]
ExcInfos == {NoExc, BodyError}

B(b) == IF b THEN 1 ELSE 0
\* the faults in one handler run: the body's error and the driver's failures
Cost(exc, f) == B(exc # NoExc) + B(f.cursor) + B(f.curexit) + B(f.hook) + B(f.close)

W == [conn |-> conn, cursor |-> cursor, database |-> database,
      session |-> session, transaction |-> transaction, select |-> select, gs |-> gs]

Ok(w, ret) == [w |-> w, raised |-> NoExc, ret |-> ret]
Raise(w, e) == [w |-> w, raised |-> e, ret |-> None]

\* try/finally in which the first exception raised is the one that propagates
Finally_first(t, f) == [w |-> f.w,
                        raised |-> IF t.raised # NoExc THEN t.raised ELSE f.raised,
                        ret |-> t.ret]

\* try: <t> finally: <f(t.w)> -- the finally block always runs; what it raises
\* replaces what the try block raised
Finally(t, f) == [w |-> f.w,
                  raised |-> IF f.raised # NoExc THEN f.raised ELSE t.raised,
                  ret |-> t.ret]

----------------------------------------------------------------------------
\* The driver (psycopg2), as far as the library calls it

\* psycopg2.connect(...) or a caller's factory: a new open connection
connect(w, factory) ==
    LET c == [closed |-> FALSE, origin |-> factory, closeCalls |-> 0,
              enterCalls |-> 0, exitCalls |-> <<>>, commits |-> 0, rollbacks |-> 0]
    IN Ok([w EXCEPT !.conn = Append(@, c)], Len(w.conn) + 1)

\* connection.close()
conn_close(w, c, fails) ==
    LET w1 == [w EXCEPT !.conn[c].closeCalls = @ + 1,
                        !.conn[c].closed = IF fails THEN @ ELSE TRUE]
    IN IF fails THEN Raise(w1, ErrConnClose) ELSE Ok(w1, None)

\* connection.__enter__()
conn_enter(w, c) == Ok([w EXCEPT !.conn[c].enterCalls = @ + 1], c)

\* connection.__exit__(exc_type, exc_val, exc_tb): commit on a clean body,
\* rollback on a failed one
conn_exit(w, c, exc, fails) ==
    LET w1 == [w EXCEPT !.conn[c].exitCalls = Append(@, exc),
                        !.conn[c].commits = IF exc = NoExc THEN @ + 1 ELSE @,
                        !.conn[c].rollbacks = IF exc = NoExc THEN @ ELSE @ + 1]
    IN IF fails THEN Raise(w1, ErrConnExit) ELSE Ok(w1, None)

\* connection.cursor()
conn_cursor(w, c, fails) ==
    IF fails THEN Raise(w, ErrCursor)
    ELSE Ok([w EXCEPT !.cursor = Append(@, [conn |-> c, entered |-> FALSE,
                                             exitCalls |-> 0, closed |-> FALSE])],
            Len(w.cursor) + 1)

\* cursor.__enter__()
cursor_enter(w, k) ==
    IF k = None THEN Raise(w, "AttributeError")
    ELSE Ok([w EXCEPT !.cursor[k].entered = TRUE], k)

\* cursor.__exit__(...): closes the cursor
cursor_exit(w, k, fails) ==
    IF k = None THEN Raise(w, "AttributeError")
    ELSE LET w1 == [w EXCEPT !.cursor[k].exitCalls = @ + 1,
                             !.cursor[k].closed = IF fails THEN @ ELSE TRUE]
         IN IF fails THEN Raise(w1, ErrCursorExit) ELSE Ok(w1, None)

----------------------------------------------------------------------------
\* Database

\* the arguments a Database can be constructed from
NoArg == [kind |-> "none", id |-> 0, yields |-> "conn"]
Args == {[kind |-> "Credentials", id |-> 1, yields |-> "conn"],
         [kind |-> "str", id |-> 2, yields |-> "conn"],
         [kind |-> "Callable", id |-> 3, yields |-> "conn"],
         [kind |-> "Callable", id |-> 4, yields |-> "str"]}

\* Credentials.__str__
Credentials_str(cred) == [kind |-> "str", id |-> cred.id, yields |-> "conn"]

\* Database.__init__(arg)
Database_init(w, arg) ==
    LET connection_string == IF arg.kind = "Credentials" THEN Credentials_str(arg)
                             ELSE IF arg.kind = "str" THEN arg ELSE NoArg
        connection_factory ==
            IF connection_string # NoArg
            THEN [kind |-> "connect", id |-> connection_string.id, yields |-> "conn"]
            ELSE IF arg.kind = "Callable" THEN arg ELSE NoArg
    IN IF connection_factory = NoArg THEN Raise(w, "ValueError")
       ELSE Ok([w EXCEPT !.database =
                    Append(@, [_connection_factory |-> connection_factory,
                               _session |-> None])],
               Len(w.database) + 1)

\* Session.__init__(conn)
Session_init(w, c) ==
    Ok([w EXCEPT !.session = Append(@, [_conn |-> c, _transaction |-> None])],
       Len(w.session) + 1)

\* self._connection_factory(): a connection, or a string still to be opened
call_factory(w, f) ==
    IF f.yields = "str" THEN Ok(w, [str |-> TRUE, v |-> f.id])
    ELSE LET r == connect(w, f) IN Ok(r.w, [str |-> FALSE, v |-> r.ret])

\* Database.__enter__
Database_enter(w, d) ==
    LET r1 == call_factory(w, w.database[d]._connection_factory)
        r2 == IF r1.ret.str
              THEN connect(r1.w, [kind |-> "connect", id |-> r1.ret.v, yields |-> "conn"])
              ELSE Ok(r1.w, r1.ret.v)
        r3 == Session_init(r2.w, r2.ret)
    IN Ok([r3.w EXCEPT !.database[d]._session = r3.ret], r3.ret)

\* Database.__exit__ without its try/finally: close(), then clear
Database_exit_unguarded(w, d, f) ==
    LET s == w.database[d]._session
        t == IF s = None THEN Raise(w, "AttributeError")
             ELSE conn_close(w, w.session[s]._conn, f.close)
    IN IF t.raised # NoExc THEN t
       ELSE Ok([t.w EXCEPT !.database[d]._session = None], None)

\* Database.__exit__
Database_exit(w, d, f) ==
    LET s == w.database[d]._session
        t == IF s = None THEN Raise(w, "AttributeError")
             ELSE conn_close(w, w.session[s]._conn, f.close)
    IN Finally(t, Ok([t.w EXCEPT !.database[d]._session = None], None))

----------------------------------------------------------------------------
\* Session and Transaction

\* Transaction.__init__(conn)
Transaction_init(w, c) ==
    Ok([w EXCEPT !.transaction = Append(@, [_conn |-> c, _cursor |-> None])],
       Len(w.transaction) + 1)

\* Session.__enter__ without its assertion
Session_enter_unasserted(w, s) ==
    LET r1 == conn_enter(w, w.session[s]._conn)
        r2 == Transaction_init(r1.w, w.session[s]._conn)
    IN Ok([r2.w EXCEPT !.session[s]._transaction = r2.ret], r2.ret)

\* Session.__enter__
Session_enter(w, s) ==
    IF w.session[s]._transaction # None THEN Raise(w, "AssertionError")
    ELSE LET r1 == conn_enter(w, w.session[s]._conn)
             r2 == Transaction_init(r1.w, w.session[s]._conn)
         IN Ok([r2.w EXCEPT !.session[s]._transaction = r2.ret], r2.ret)

\* Session.__exit__ without its try/finally: the hook, then clear
Session_exit_unguarded(w, s, exc, f) ==
    IF w.session[s]._transaction = None THEN Raise(w, "AssertionError")
    ELSE LET t == conn_exit(w, w.session[s]._conn, exc, f.hook)
         IN IF t.raised # NoExc THEN t
            ELSE Ok([t.w EXCEPT !.session[s]._transaction = None], None)

\* Session.__exit__
Session_exit(w, s, exc, f) ==
    IF w.session[s]._transaction = None THEN Raise(w, "AssertionError")
    ELSE LET t == conn_exit(w, w.session[s]._conn, exc, f.hook)
         IN Finally(t, Ok([t.w EXCEPT !.session[s]._transaction = None], None))

\* Transaction.cursor
Transaction_cursor(w, t, f) == conn_cursor(w, w.transaction[t]._conn, f.cursor)

\* Transaction.__enter__ (Cursor(cur) wraps the driver cursor cur)
Transaction_enter(w, t, f) ==
    IF w.transaction[t]._cursor # None THEN Raise(w, "AssertionError")
    ELSE LET r1 == conn_cursor(w, w.transaction[t]._conn, f.cursor)
         IN IF r1.raised # NoExc THEN r1
            ELSE LET w2 == [r1.w EXCEPT !.transaction[t]._cursor = r1.ret]
                     r3 == cursor_enter(w2, r1.ret)
                 IN Ok(r3.w, r1.ret)

\* Transaction.__exit__
Transaction_exit(w, t, exc, f) ==
    IF w.transaction[t]._cursor = None THEN Raise(w, "AssertionError")
    ELSE LET r == cursor_exit(w, w.transaction[t]._cursor, f.curexit)
         IN Finally(r, Ok([r.w EXCEPT !.transaction[t]._cursor = None], None))

----------------------------------------------------------------------------
\* Select

\* Select.__init__(parent, query)
Select_init(w, parent) ==
    Ok([w EXCEPT !.select = Append(@, [_parent |-> parent, _session |-> None,
                                        _transaction |-> None, _cursor |-> None])],
       Len(w.select) + 1)

\* Select.__enter__, from the point where the Transaction t is known:
\* self._cursor = t.cursor(); self._cursor.__enter__()
Select_enter_cursor(w, i, t, f) ==
    LET r == Transaction_cursor(w, t, f)
    IN IF r.raised # NoExc THEN r
       ELSE LET r2 == cursor_enter([r.w EXCEPT !.select[i]._cursor = r.ret], r.ret)
            IN IF r2.raised # NoExc THEN r2 ELSE Ok(r2.w, i)

\* Select.__enter__, from the point where the Session s is known:
\* self._transaction = s.__enter__(), then the cursor
Select_enter_session(w, i, s, f) ==
    LET r == Session_enter(w, s)
    IN IF r.raised # NoExc THEN r
       ELSE Select_enter_cursor([r.w EXCEPT !.select[i]._transaction = r.ret],
                                i, r.ret, f)

\* Select.__enter__
Select_enter(w, i, f) ==
    LET p == w.select[i]._parent
    IN IF p.kind = "Database"
       THEN LET r == Database_enter(w, p.id)
            IN Select_enter_session([r.w EXCEPT !.select[i]._session = r.ret],
                                    i, r.ret, f)
       ELSE IF p.kind = "Session" THEN Select_enter_session(w, i, p.id, f)
       ELSE IF p.kind = "Transaction" THEN Select_enter_cursor(w, i, p.id, f)
       ELSE LET r == cursor_enter(w, w.select[i]._cursor)
            IN IF r.raised # NoExc THEN r ELSE Ok(r.w, i)

\* Select.__exit__ that closes the connection of a Session parent as well
Select_exit_closing(w, i, exc, f) ==
    LET sel == w.select[i]
        p == sel._parent
        t1 == cursor_exit(w, sel._cursor, f.curexit)
        inner ==
            IF p.kind = "Database"
            THEN LET ta == IF sel._transaction = None THEN Raise(t1.w, "AttributeError")
                           ELSE Transaction_exit(t1.w, sel._transaction, exc, f)
                     tb == IF sel._session = None THEN Raise(ta.w, "AttributeError")
                           ELSE Session_exit(ta.w, sel._session, exc, f)
                 IN Finally(ta, tb)
            ELSE IF p.kind = "Session"
            THEN LET ta == Session_exit(t1.w, p.id, exc, f)
                 IN Finally(ta, conn_close(ta.w, w.session[p.id]._conn, f.close))
            ELSE Ok(t1.w, None)
        clear == Ok([inner.w EXCEPT !.select[i]._session = None,
                                    !.select[i]._transaction = None,
                                    !.select[i]._cursor = None], None)
    IN Finally(t1, Finally(inner, clear))

\* Select.__exit__ that clears its references only when no release raised
Select_exit_keeping(w, i, exc, f) ==
    LET sel == w.select[i]
        p == sel._parent
        t1 == cursor_exit(w, sel._cursor, f.curexit)
        inner ==
            IF p.kind = "Database"
            THEN LET ta == IF sel._transaction = None THEN Raise(t1.w, "AttributeError")
                           ELSE Transaction_exit(t1.w, sel._transaction, exc, f)
                     tb == IF sel._session = None THEN Raise(ta.w, "AttributeError")
                           ELSE Session_exit(ta.w, sel._session, exc, f)
                 IN Finally(ta, tb)
            ELSE IF p.kind = "Session" THEN Session_exit(t1.w, p.id, exc, f)
            ELSE Ok(t1.w, None)
        all == Finally(t1, inner)
    IN IF all.raised # NoExc THEN all
       ELSE Ok([all.w EXCEPT !.select[i]._session = None,
                             !.select[i]._transaction = None,
                             !.select[i]._cursor = None], None)

\* Select.__exit__
Select_exit(w, i, exc, f) ==
    LET sel == w.select[i]
        p == sel._parent
        t1 == cursor_exit(w, sel._cursor, f.curexit)
        inner ==
            IF p.kind = "Database"
            THEN LET ta == IF sel._transaction = None THEN Raise(t1.w, "AttributeError")
                           ELSE Transaction_exit(t1.w, sel._transaction, exc, f)
                     tb == IF sel._session = None THEN Raise(ta.w, "AttributeError")
                           ELSE Session_exit(ta.w, sel._session, exc, f)
                 IN Finally(ta, tb)
            ELSE IF p.kind = "Session" THEN Session_exit(t1.w, p.id, exc, f)
            ELSE Ok(t1.w, None)
        clear == Ok([inner.w EXCEPT !.select[i]._session = None,
                                    !.select[i]._transaction = None,
                                    !.select[i]._cursor = None], None)
    IN Finally(t1, Finally(inner, clear))

----------------------------------------------------------------------------
\* GlobalSession (class attributes __database, __session, __args)

IdleGs == [database |-> None, session |-> None, args |-> NoArg]

\* GlobalSession.__init__(*args)
GlobalSession_init(w, arg, f) ==
    IF arg = NoArg THEN Ok(w, None)
    ELSE LET r == IF w.gs.database # None
                  THEN LET x == Database_exit(w, w.gs.database, f)
                       IN IF x.raised # NoExc THEN x
                          ELSE Ok([x.w EXCEPT !.gs.session = None], None)
                  ELSE Ok(w, None)
         IN IF r.raised # NoExc THEN r
            ELSE Ok([r.w EXCEPT !.gs.args = arg], None)

\* GlobalSession.get that does not look for the cached pair
GlobalSession_get_uncached(w) ==
    LET r1 == Database_init(w, w.gs.args)
    IN IF r1.raised # NoExc THEN r1
       ELSE LET r2 == Database_enter([r1.w EXCEPT !.gs.database = r1.ret], r1.ret)
                w3 == [r2.w EXCEPT !.gs.session = r2.ret]
            IN Ok(w3, w3.gs.session)

\* GlobalSession.get
GlobalSession_get(w) ==
    IF w.gs.database = None
    THEN LET r1 == Database_init(w, w.gs.args)
         IN IF r1.raised # NoExc THEN r1
            ELSE LET r2 == Database_enter([r1.w EXCEPT !.gs.database = r1.ret], r1.ret)
                     w3 == [r2.w EXCEPT !.gs.session = r2.ret]
                 IN Ok(w3, w3.gs.session)
    ELSE Ok(w, w.gs.session)

----------------------------------------------------------------------------
\* The caller: with-blocks over one Database, properly nested, never entering
\* the Database while a block that entered it is still open

IdleMock == [fakes |-> <<>>, query |-> <<>>, selected |-> FALSE,
             src |-> [data |-> <<>>, pos |-> 0], out |-> <<>>,
             looping |-> FALSE, stops |-> 0]
IdleIns == [table |-> "t", values |-> [kind |-> "list", rows |-> <<>>],
            log |-> <<>>, done |-> FALSE]
Start == [op |-> "start", obj |-> None, exc |-> NoExc, f |-> NoFailure,
          raised |-> NoExc, ret |-> None, scope |-> {}, opened |-> {}, closed |-> {},
          since |-> [opened |-> {}, got |-> {}]]

Empty == [conn |-> <<>>, cursor |-> <<>>, database |-> <<>>, session |-> <<>>,
          transaction |-> <<>>, select |-> <<>>, gs |-> IdleGs]

\* what has happened since the singleton was last constructed with arguments:
\* the connections opened and the values GlobalSession.get() returned
Since(r, op, obj) ==
    LET before == IF op = "GlobalSession.__init__" /\ obj # NoArg
                  THEN Start.since ELSE last.since
    IN [opened |-> before.opened \cup (Len(conn) + 1)..Len(r.w.conn),
        got |-> before.got \cup IF op = "GlobalSession.get" /\ r.raised = NoExc
                                THEN {r.ret} ELSE {}]

\* the heap and the outcome of handler result r become the next state
\* (scope: the connections the entry of the with-block being left had opened;
\* opened, closed: the connections this handler opened and called close() on)
Ran(r, op, obj, exc, f, scope) ==
    /\ conn' = r.w.conn
    /\ cursor' = r.w.cursor
    /\ database' = r.w.database
    /\ session' = r.w.session
    /\ transaction' = r.w.transaction
    /\ select' = r.w.select
    /\ gs' = r.w.gs
    /\ last' = [op |-> op, obj |-> obj, exc |-> exc, f |-> f,
                raised |-> r.raised, ret |-> r.ret, scope |-> scope,
                opened |-> (Len(conn) + 1)..Len(r.w.conn),
                closed |-> {c \in 1..Len(conn) :
                               r.w.conn[c].closeCalls > conn[c].closeCalls},
                since |-> Since(r, op, obj)]
    /\ faults + Cost(exc, f) <= MaxFaults
    /\ faults' = faults + Cost(exc, f)

\* a with-block: the object entered, what __enter__ returned, and the
\* connections the entry opened
Frame(kind, obj, r) == [kind |-> kind, obj |-> obj, ret |-> r.ret,
                        opened |-> (Len(conn) + 1)..Len(r.w.conn)]
Top == stack[Len(stack)]
Pop == SubSeq(stack, 1, Len(stack) - 1)
Open(kind) == {stack[n].ret : n \in {m \in 1..Len(stack) : stack[m].kind = kind}}

\* the caller's Database is entered by one of its open blocks
Entered(d) ==
    \E n \in 1..Len(stack) :
        \/ stack[n].kind = "Database" /\ stack[n].obj = d
        \/ /\ stack[n].kind = "Select"
           /\ select[stack[n].obj]._parent = [kind |-> "Database", id |-> d]

Init ==
    /\ LET r == Database_init(Empty, CHOOSE a \in Args : a.kind = "Callable" /\ a.yields = "conn")
       IN /\ conn = r.w.conn /\ cursor = r.w.cursor /\ database = r.w.database
          /\ session = r.w.session /\ transaction = r.w.transaction
          /\ select = r.w.select /\ gs = r.w.gs
    /\ stack = <<>>
    /\ mock = IdleMock /\ ins = IdleIns
    /\ last = Start
    /\ faults = 0

\* with db as session:
EnterDatabase ==
    /\ ~Entered(1)
    /\ Len(conn) < MaxConns
    /\ LET r == Database_enter(W, 1)
       IN /\ Ran(r, "Database.__enter__", 1, NoExc, NoFailure, {})
          /\ stack' = Append(stack, Frame("Database", 1, r))
    /\ UNCHANGED <<mock, ins>>

\* the end of a with db block, the body having raised exc
ExitDatabase ==
    /\ stack # <<>> /\ Top.kind = "Database"
    /\ \E exc \in ExcInfos, f \in {g \in Failures : ~g.cursor /\ ~g.curexit /\ ~g.hook} :
          Ran(Database_exit(W, Top.obj, f), "Database.__exit__", Top.obj, exc, f, Top.opened)
    /\ stack' = Pop
    /\ UNCHANGED <<mock, ins>>

\* with session as transaction:
EnterSession ==
    /\ \E s \in Open("Database") :
          /\ session[s]._transaction = None => Len(transaction) < MaxTransactions
          /\ LET r == Session_enter(W, s)
             IN /\ Ran(r, "Session.__enter__", s, NoExc, NoFailure, {})
                /\ stack' = IF r.raised = NoExc
                            THEN Append(stack, Frame("Session", s, r)) ELSE stack
    /\ UNCHANGED <<mock, ins>>

\* the end of a with session block
ExitSession ==
    /\ stack # <<>> /\ Top.kind = "Session"
    /\ \E exc \in ExcInfos, f \in {g \in Failures : ~g.cursor /\ ~g.curexit /\ ~g.close} :
          Ran(Session_exit(W, Top.obj, exc, f), "Session.__exit__", Top.obj, exc, f, Top.opened)
    /\ stack' = Pop
    /\ UNCHANGED <<mock, ins>>

\* the parents a new Select can be made from
Parents ==
    {[kind |-> "Database", id |-> 1]}
    \cup {[kind |-> "Session", id |-> s] : s \in Open("Database")}
    \cup {[kind |-> "Transaction", id |-> t] : t \in Open("Session")}

\* parent.select(query)
NewSelect ==
    /\ Len(select) < MaxSelects
    /\ \E p \in Parents : Ran(Select_init(W, p), "Select.__init__", None, NoExc, NoFailure, {})
    /\ UNCHANGED <<stack, mock, ins>>

\* with select as rows:
EnterSelect ==
    /\ \E i \in 1..Len(select) :
          /\ select[i]._parent \in Parents
          /\ \A n \in 1..Len(stack) : ~(stack[n].kind = "Select" /\ stack[n].obj = i)
          /\ select[i]._parent.kind = "Database" =>
                ~Entered(select[i]._parent.id) /\ Len(conn) < MaxConns
          /\ select[i]._parent.kind = "Session" =>
                (session[select[i]._parent.id]._transaction = None =>
                    Len(transaction) < MaxTransactions)
          /\ select[i]._parent.kind = "Database" => Len(transaction) < MaxTransactions
          /\ Len(cursor) < MaxCursors
          /\ \E f \in {g \in Failures : ~g.curexit /\ ~g.hook /\ ~g.close} :
                LET r == Select_enter(W, i, f)
                IN /\ Ran(r, "Select.__enter__", i, NoExc, f, {})
                   /\ stack' = IF r.raised = NoExc
                               THEN Append(stack, Frame("Select", i, r)) ELSE stack
    /\ UNCHANGED <<mock, ins>>

\* the end of a with select block
ExitSelect ==
    /\ stack # <<>> /\ Top.kind = "Select"
    /\ \E exc \in ExcInfos, f \in {g \in Failures : ~g.cursor /\ ~g.close} :
          Ran(Select_exit(W, Top.obj, exc, f), "Select.__exit__", Top.obj, exc, f, Top.opened)
    /\ stack' = Pop
    /\ UNCHANGED <<mock, ins>>

Next ==
    \/ EnterDatabase \/ ExitDatabase
    \/ EnterSession \/ ExitSession
    \/ NewSelect \/ EnterSelect \/ ExitSelect

Spec == Init /\ [][Next]_vars


----------------------------------------------------------------------------
\* The process using the GlobalSession singleton

InitGlobal ==
    /\ conn = <<>> /\ cursor = <<>> /\ database = <<>> /\ session = <<>>
    /\ transaction = <<>> /\ select = <<>> /\ gs = IdleGs
    /\ stack = <<>>
    /\ mock = IdleMock /\ ins = IdleIns
    /\ last = Start
    /\ faults = 0

\* GlobalSession(*args), GlobalSession()
GlobalInit ==
    /\ \E arg \in Args \cup {NoArg},
          f \in {g \in Failures : ~g.cursor /\ ~g.curexit /\ ~g.hook} :
          /\ f.close => /\ arg # NoArg /\ gs.database # None
                        /\ database[gs.database]._session # None
          /\ Ran(GlobalSession_init(W, arg, f), "GlobalSession.__init__", arg, NoExc, f, {})
    /\ UNCHANGED <<stack, mock, ins>>

\* GlobalSession.get()
GlobalGet ==
    /\ (gs.database = None /\ gs.args # NoArg) => Len(conn) < MaxConns
    /\ Ran(GlobalSession_get(W), "GlobalSession.get", None, NoExc, NoFailure, {})
    /\ UNCHANGED <<stack, mock, ins>>

----------------------------------------------------------------------------
\* QueryableMock and SelectMock

\* sequences over S of length at most n
SeqsUpTo(S, n) == UNION {[1..m -> S] : m \in 0..n}

\* regular expressions: a sequence of tokens, each a literal character,
\* "." (any one character) or ".*" (any characters)
Patterns == {<<"a">>, <<"b">>, <<"a", ".">>, <<".*", "b">>}
Queries == {<<"a", "b">>, <<"b", "a">>, <<"b">>}
Rows == {<<"foo", "bar">>, <<"z">>}

RECURSIVE re_match(_, _)
\* re.match(k, query): k matches at the start of query, not necessarily all of it
re_match(k, query) ==
    IF k = <<>> THEN TRUE
    ELSE IF Head(k) = ".*"
    THEN \E n \in 0..Len(query) : re_match(Tail(k), SubSeq(query, n + 1, Len(query)))
    ELSE /\ query # <<>>
         /\ Head(k) = "." \/ Head(k) = Head(query)
         /\ re_match(Tail(k), Tail(query))

\* SelectMock.__init__(data): self._iter = iter(data)
SelectMock_init(data) == [data |-> data, pos |-> 0]

RECURSIVE select_from(_, _, _)
\* the loop of QueryableMock.select over self._fakes.items(), from entry n on
select_from(fakes, query, n) ==
    IF n > Len(fakes) THEN SelectMock_init(<<>>)
    ELSE IF re_match(fakes[n].pattern, query) THEN SelectMock_init(fakes[n].rows)
    ELSE select_from(fakes, query, n + 1)

\* QueryableMock.select with the last match winning
QueryableMock_select_last(fakes, query) ==
    LET hits == {n \in 1..Len(fakes) : re_match(fakes[n].pattern, query)}
    IN IF hits = {} THEN SelectMock_init(<<>>)
       ELSE SelectMock_init(fakes[CHOOSE n \in hits : \A m \in hits : m <= n].rows)

\* QueryableMock.select that hands out the last entry's rows when none matches
QueryableMock_select_leak(fakes, query) ==
    LET r == select_from(fakes, query, 1)
    IN IF fakes # <<>> /\ \A n \in 1..Len(fakes) : ~re_match(fakes[n].pattern, query)
       THEN SelectMock_init(fakes[Len(fakes)].rows) ELSE r

\* QueryableMock.select
QueryableMock_select(fakes, query) == select_from(fakes, query, 1)

\* SelectMock.__iter__ that starts over
SelectMock_iter_restart(src) == [src EXCEPT !.pos = 0]

\* SelectMock.__iter__: return self
SelectMock_iter(src) == src

\* SelectMock.__next__: next(self._iter)
SelectMock_next(src) ==
    IF src.pos < Len(src.data)
    THEN [src |-> [src EXCEPT !.pos = @ + 1], raised |-> NoExc, ret |-> src.data[src.pos + 1]]
    ELSE [src |-> src, raised |-> "StopIteration", ret |-> None]

\* the mappings a mock can be built from: dict keys are distinct
FakeMaps ==
    {m \in SeqsUpTo([pattern : Patterns, rows : SeqsUpTo(Rows, MaxMockRows)], MaxFakes) :
        \A a, b \in 1..Len(m) : a # b => m[a].pattern # m[b].pattern}

Op(op, raised, ret) == [Start EXCEPT !.op = op, !.raised = raised, !.ret = ret]

\* q = Queryable.mock(fakes), about to be asked query
InitMock ==
    /\ conn = <<>> /\ cursor = <<>> /\ database = <<>> /\ session = <<>>
    /\ transaction = <<>> /\ select = <<>> /\ gs = IdleGs
    /\ stack = <<>> /\ ins = IdleIns /\ faults = 0
    /\ last = Start
    /\ \E m \in FakeMaps, q \in Queries :
          mock = [IdleMock EXCEPT !.fakes = m, !.query = q]

\* rows = q.select(query)
MockSelect ==
    /\ ~mock.selected
    /\ mock' = [mock EXCEPT !.src = QueryableMock_select(mock.fakes, mock.query),
                            !.selected = TRUE]
    /\ last' = Op("QueryableMock.select", NoExc, None)
    /\ UNCHANGED <<conn, cursor, database, session, transaction, select, stack, gs,
                   ins, faults>>

\* for row in rows: (the loop starts)
MockIter ==
    /\ mock.selected /\ ~mock.looping /\ mock.stops < MaxLoops
    /\ mock' = [mock EXCEPT !.src = SelectMock_iter(mock.src), !.looping = TRUE]
    /\ last' = Op("SelectMock.__iter__", NoExc, None)
    /\ UNCHANGED <<conn, cursor, database, session, transaction, select, stack, gs,
                   ins, faults>>

\* the loop asks for the next row; StopIteration ends it
MockNext ==
    /\ mock.selected /\ mock.looping
    /\ LET r == SelectMock_next(mock.src)
       IN /\ mock' = [mock EXCEPT !.src = r.src,
                                  !.out = IF r.raised = NoExc THEN Append(@, r.ret) ELSE @,
                                  !.looping = (r.raised = NoExc),
                                  !.stops = IF r.raised = NoExc THEN @ ELSE @ + 1]
          /\ last' = Op("SelectMock.__next__", r.raised, r.ret)
    /\ UNCHANGED <<conn, cursor, database, session, transaction, select, stack, gs,
                   ins, faults>>

NextMock == MockSelect \/ MockIter \/ MockNext

SpecMock == InitMock /\ [][NextMock]_vars

----------------------------------------------------------------------------
\* The insert helper

\* a mapping is a sequence of <<key, value>> pairs with distinct keys, in
\* insertion order; a value carries its Python type
Columns == {"id", "name"}
Values == {[t |-> "UUID", v |-> "u1"], [t |-> "str", v |-> "x"]}
Mappings ==
    {m \in SeqsUpTo(Columns \X Values, Cardinality(Columns)) :
        \A a, b \in 1..Len(m) : a # b => m[a][1] # m[b][1]}

\* dict_.keys(), in insertion order
keys(m) == [n \in 1..Len(m) |-> m[n][1]]
\* dict_[key]
item(m, key) == (CHOOSE n \in 1..Len(m) : m[n][1] = key)
has(m, key) == \E n \in 1..Len(m) : m[n][1] = key

\* _serialize: a UUID becomes its string form, other values pass through
_serialize(m) ==
    [n \in 1..Len(m) |->
        <<m[n][1], IF m[n][2].t = "UUID"
                   THEN [t |-> "str", v |-> <<"str", m[n][2].v>>] ELSE m[n][2]>>]

\* cursor.mogrify(insertion_pattern, args): the bound value tuple; a missing
\* key or a value the driver cannot adapt raises
mogrify(pattern, args) ==
    IF \E n \in 1..Len(pattern) : ~has(args, pattern[n]) THEN Raise(<<>>, "KeyError")
    ELSE LET vals == [n \in 1..Len(pattern) |-> args[item(args, pattern[n])][2]]
         IN IF \E n \in 1..Len(vals) : vals[n].t = "UUID"
            THEN Raise(<<>>, "ProgrammingError")
            ELSE Ok(<<>>, vals)

RECURSIVE bind(_, _, _, _)
\* the generator handed to ','.join: one mogrify call per row, in row order,
\* stopping at the first that raises
bind(pattern, rows, log, tuples) ==
    IF rows = <<>> THEN [log |-> log, raised |-> NoExc, ret |-> tuples]
    ELSE LET args == _serialize(Head(rows))
             r == mogrify(pattern, args)
             log1 == Append(log, [call |-> "mogrify", pattern |-> pattern, args |-> args])
         IN IF r.raised # NoExc THEN [log |-> log1, raised |-> r.raised, ret |-> <<>>]
            ELSE bind(pattern, Tail(rows), log1, Append(tuples, r.ret))

\* the statement text: table, column list, VALUES tuples
Statement(table, columns, tuples) ==
    [call |-> "execute", table |-> table, columns |-> columns, tuples |-> tuples]

\* insert that goes on with an empty collection
insert_unguarded(table, values) ==
    LET rows == values.rows
        ks == IF rows = <<>> THEN <<>> ELSE keys(rows[1])
        b == bind(ks, rows, <<>>, <<>>)
    IN IF b.raised # NoExc THEN [log |-> b.log, raised |-> b.raised]
       ELSE [log |-> Append(b.log, Statement(table, ks, b.ret)), raised |-> NoExc]

\* insert that executes one statement per row
insert_each(table, values) ==
    LET rows == values.rows
        b == bind(keys(rows[1]), rows, <<>>, <<>>)
    IN IF rows = <<>> \/ (values.kind = "Mapping" /\ rows[1] = <<>>)
       THEN [log |-> <<>>, raised |-> NoExc]
       ELSE IF b.raised # NoExc THEN [log |-> b.log, raised |-> b.raised]
       ELSE [log |-> b.log \o [n \in 1..Len(rows) |->
                                  Statement(table, keys(rows[1]), <<b.ret[n]>>)],
             raised |-> NoExc]

\* insert(cursor, table, values); values is a Mapping (kind "Mapping", held as
\* the one row it becomes) or a collection of Mappings (kind "list")
insert(table, values) ==
    LET rows == values.rows
        ks == keys(rows[1])
        b == bind(ks, rows, <<>>, <<>>)
    IN IF rows = <<>> \/ (values.kind = "Mapping" /\ rows[1] = <<>>)
       THEN [log |-> <<>>, raised |-> NoExc]
       ELSE IF b.raised # NoExc THEN [log |-> b.log, raised |-> b.raised]
       ELSE [log |-> Append(b.log, Statement(table, ks, b.ret)), raised |-> NoExc]

\* the values insert can be handed
InsertValues ==
    {[kind |-> "Mapping", rows |-> <<m>>] : m \in Mappings}
    \cup {[kind |-> "list", rows |-> r] : r \in SeqsUpTo(Mappings, MaxInsertRows)}

InitInsert ==
    /\ conn = <<>> /\ cursor = <<>> /\ database = <<>> /\ session = <<>>
    /\ transaction = <<>> /\ select = <<>> /\ gs = IdleGs
    /\ stack = <<>> /\ mock = IdleMock /\ faults = 0
    /\ last = Start
    /\ \E v \in InsertValues : ins = [IdleIns EXCEPT !.values = v]

\* insert(cur, table, values)
InsertCall ==
    /\ ~ins.done
    /\ LET r == insert(ins.table, ins.values)
       IN /\ ins' = [ins EXCEPT !.log = r.log, !.done = TRUE]
          /\ last' = Op("insert", r.raised, None)
    /\ UNCHANGED <<conn, cursor, database, session, transaction, select, stack, gs,
                   mock, faults>>

NextInsert == InsertCall

SpecInsert == InitInsert /\ [][NextInsert]_vars

----------------------------------------------------------------------------
\* insert and execute: the calls that open and close their own scopes

ErrExecute == "execute raised"

\* a handler result together with the calls its cursor saw
Logged(r, log) == [w |-> r.w, raised |-> r.raised, ret |-> r.ret, log |-> log]

\* the statement text Session.execute and its kin are handed
Sql == [call |-> "execute", sql |-> "sql"]

\* cursor.execute(query): the driver runs the statement or raises
cursor_execute(w, k, fails) ==
    IF k = None THEN Raise(w, "AttributeError")
    ELSE IF fails THEN Raise(w, ErrExecute) ELSE Ok(w, None)

\* Cursor.execute: self._cur.execute(sql)
Cursor_execute(w, k, fails) == cursor_execute(w, k, fails)

\* In the with statements below, run(v) is the statement seen from the
\* result v of the manager's __enter__: if that raised, it propagates and no
\* __exit__ is called; else the body runs and leave(body) calls the manager's
\* __exit__ whether the body returned or raised.

\* with transaction.cursor() as cur: insert(cur, table, values)
insert_with_cursor(w, t, table, values, f, x) ==
    LET call(cur, i) ==
            Logged(IF i.raised # NoExc THEN Raise(cur.w, i.raised)
                   ELSE IF i.log # <<>> THEN cursor_execute(cur.w, cur.ret, x)
                   ELSE Ok(cur.w, None),
                   i.log)
        leave(cur, body) ==
            Logged(Finally(body, cursor_exit(body.w, cur.ret, f.curexit)), body.log)
        run(cur) == IF cur.raised # NoExc THEN Logged(cur, <<>>)
                    ELSE leave(cur, call(cur, insert(table, values)))
        enter(r) == IF r.raised # NoExc THEN r ELSE cursor_enter(r.w, r.ret)
    IN run(enter(Transaction_cursor(w, t, f)))

\* Transaction.execute: with self as cur: cur.execute(sql)
Transaction_execute(w, t, f, x) ==
    LET leave(body) ==
            Logged(Finally(body, Transaction_exit(body.w, t, body.raised, f)), <<Sql>>)
        run(cur) == IF cur.raised # NoExc THEN Logged(cur, <<>>)
                    ELSE leave(Cursor_execute(cur.w, cur.ret, x))
    IN run(Transaction_enter(w, t, f))

\* Session.insert: with self as transaction:
\*     with transaction.cursor() as cur: insert(cur, table, values)
Session_insert(w, s, table, values, f, x) ==
    LET leave(body) ==
            Logged(Finally(body, Session_exit(body.w, s, body.raised, f)), body.log)
        run(tx) == IF tx.raised # NoExc THEN Logged(tx, <<>>)
                   ELSE leave(insert_with_cursor(tx.w, tx.ret, table, values, f, x))
    IN run(Session_enter(w, s))

\* Session.execute: with self as transaction: transaction.execute(sql)
Session_execute(w, s, f, x) ==
    LET leave(body) ==
            Logged(Finally(body, Session_exit(body.w, s, body.raised, f)), body.log)
        run(tx) == IF tx.raised # NoExc THEN Logged(tx, <<>>)
                   ELSE leave(Transaction_execute(tx.w, tx.ret, f, x))
    IN run(Session_enter(w, s))

\* Database.insert that leaves its Session open when the body raises
Database_insert_leaking(w, d, table, values, f, x) ==
    LET leave(body) == IF body.raised # NoExc THEN body
                       ELSE Logged(Database_exit(body.w, d, f), body.log)
        run(se) == leave(Session_insert(se.w, se.ret, table, values, f, x))
    IN run(Database_enter(w, d))

\* Database.insert: with self as session: session.insert(table, values)
Database_insert(w, d, table, values, f, x) ==
    LET leave(body) == Logged(Finally(body, Database_exit(body.w, d, f)), body.log)
        run(se) == leave(Session_insert(se.w, se.ret, table, values, f, x))
    IN run(Database_enter(w, d))

\* Database.execute: with self as session: session.execute(sql)
Database_execute(w, d, f, x) ==
    LET leave(body) == Logged(Finally(body, Database_exit(body.w, d, f)), body.log)
        run(se) == leave(Session_execute(se.w, se.ret, f, x))
    IN run(Database_enter(w, d))

\* `with None as transaction:` -- None is no context manager (AttributeError
\* up to Python 3.10, TypeError from 3.11)
ErrWithNone == "with None"

\* GlobalSession.select: Select(cls.get(), query)
GlobalSession_select(w) ==
    LET make(r) == IF r.raised # NoExc THEN r
                   ELSE Select_init(r.w, IF r.ret = None
                                         THEN [kind |-> "None", id |-> None]
                                         ELSE [kind |-> "Session", id |-> r.ret])
    IN make(GlobalSession_get(w))

\* GlobalSession.insert: with cls.get() as transaction:
\*     with transaction.cursor() as cur: insert(cur, table, values)
\* (got: how cls.get() ended; its result is the manager of the with statement)
GlobalSession_insert(w, table, values, f, x) ==
    LET leave(s, body) ==
            Logged(Finally(body, Session_exit(body.w, s, body.raised, f)), body.log)
        run(s, tx) == IF tx.raised # NoExc THEN Logged(tx, <<>>)
                      ELSE leave(s, insert_with_cursor(tx.w, tx.ret, table, values, f, x))
        with(got) == IF got.raised # NoExc THEN Logged(got, <<>>)
                     ELSE IF got.ret = None THEN Logged(Raise(got.w, ErrWithNone), <<>>)
                     ELSE run(got.ret, Session_enter(got.w, got.ret))
    IN with(GlobalSession_get(w))

\* GlobalSession.execute: with cls.get() as transaction: transaction.execute(sql)
GlobalSession_execute(w, f, x) ==
    LET leave(s, body) ==
            Logged(Finally(body, Session_exit(body.w, s, body.raised, f)), body.log)
        run(s, tx) == IF tx.raised # NoExc THEN Logged(tx, <<>>)
                      ELSE leave(s, Transaction_execute(tx.w, tx.ret, f, x))
        with(got) == IF got.raised # NoExc THEN Logged(got, <<>>)
                     ELSE IF got.ret = None THEN Logged(Raise(got.w, ErrWithNone), <<>>)
                     ELSE run(got.ret, Session_enter(got.w, got.ret))
    IN with(GlobalSession_get(w))

\* the values the callers hand to insert: nothing, one Mapping, and two rows
\* of which the second lacks the first one's column
CallValues ==
    {[kind |-> "list", rows |-> <<>>],
     [kind |-> "Mapping", rows |-> << << <<"id", [t |-> "UUID", v |-> "u1"]>> >> >>],
     [kind |-> "list", rows |-> << << <<"id", [t |-> "str", v |-> "x"]>> >>,
                                   << <<"name", [t |-> "str", v |-> "x"]>> >> >>]}

\* the driver failures an insert or execute call can meet: a cursor that
\* was not handed out cannot fail to close or to execute
CallFailures ==
    {g \in [f : Failures, x : BOOLEAN] : g.f.cursor => ~g.f.curexit /\ ~g.x}

\* the heap, the cursor's calls and the outcome of an insert or execute call
\* r become the next state (x: the driver's execute fails)
RanCall(r, op, obj, f, x) ==
    /\ conn' = r.w.conn
    /\ cursor' = r.w.cursor
    /\ database' = r.w.database
    /\ session' = r.w.session
    /\ transaction' = r.w.transaction
    /\ select' = r.w.select
    /\ gs' = r.w.gs
    /\ ins' = [ins EXCEPT !.log = r.log, !.done = TRUE]
    /\ last' = [op |-> op, obj |-> obj, exc |-> NoExc, f |-> f,
                raised |-> r.raised, ret |-> r.ret, scope |-> {},
                opened |-> (Len(conn) + 1)..Len(r.w.conn),
                closed |-> {c \in 1..Len(conn) :
                               r.w.conn[c].closeCalls > conn[c].closeCalls}
                           \cup {c \in (Len(conn) + 1)..Len(r.w.conn) :
                                    r.w.conn[c].closeCalls > 0},
                since |-> Since(r, op, obj)]
    /\ faults + Cost(NoExc, f) + B(x) <= MaxFaults
    /\ faults' = faults + Cost(NoExc, f) + B(x)

----------------------------------------------------------------------------
\* The process using the GlobalSession singleton: select, insert, execute

\* a call of get() would open a connection
GetOpens == gs.database = None /\ gs.args # NoArg

\* GlobalSession.select(query)
GlobalSelect ==
    /\ Len(select) < MaxSelects
    /\ GetOpens => Len(conn) < MaxConns
    /\ \E r \in {GlobalSession_select(W)} :
          Ran(r, "GlobalSession.select", None, NoExc, NoFailure, {})
    /\ UNCHANGED <<stack, mock, ins>>

\* GlobalSession.insert(table, values), the driver working: the call raises
\* when its rows cannot be bound
GlobalInsert ==
    /\ GetOpens => Len(conn) < MaxConns
    /\ (GetOpens \/ gs.session # None) =>
          Len(transaction) < MaxTransactions /\ Len(cursor) < MaxCursors
    /\ \E v \in CallValues :
          \E r \in {GlobalSession_insert(W, "t", v, NoFailure, FALSE)} :
             RanCall(r, "GlobalSession.insert", None, NoFailure, FALSE)
    /\ UNCHANGED <<stack, mock>>

\* GlobalSession.execute(sql), the driver working
GlobalExecute ==
    /\ GetOpens => Len(conn) < MaxConns
    /\ (GetOpens \/ gs.session # None) =>
          Len(transaction) < MaxTransactions /\ Len(cursor) < MaxCursors
    /\ \E r \in {GlobalSession_execute(W, NoFailure, FALSE)} :
          RanCall(r, "GlobalSession.execute", None, NoFailure, FALSE)
    /\ UNCHANGED <<stack, mock>>

NextGlobal ==
    \/ GlobalInit \/ GlobalGet
    \/ GlobalSelect \/ GlobalInsert \/ GlobalExecute

SpecGlobal == InitGlobal /\ [][NextGlobal]_vars

----------------------------------------------------------------------------
\* The caller inside a with db block: Session scopes, Selects and the
\* Session's own insert and execute

InitSession ==
    /\ LET r0 == Database_init(Empty, CHOOSE a \in Args : a.kind = "Callable" /\ a.yields = "conn")
           r == Database_enter(r0.w, r0.ret)
       IN /\ conn = r.w.conn /\ cursor = r.w.cursor /\ database = r.w.database
          /\ session = r.w.session /\ transaction = r.w.transaction
          /\ select = r.w.select /\ gs = r.w.gs
          /\ stack = <<[kind |-> "Database", obj |-> r0.ret, ret |-> r.ret,
                        opened |-> 1..Len(r.w.conn)]>>
    /\ mock = IdleMock /\ ins = IdleIns
    /\ last = Start
    /\ faults = 0

\* session.insert(table, values)
SessionInsert ==
    /\ \E s \in Open("Database"), v \in CallValues, g \in {h \in CallFailures : ~h.f.close} :
          /\ session[s]._transaction = None =>
                Len(transaction) < MaxTransactions /\ Len(cursor) < MaxCursors
          /\ \E r \in {Session_insert(W, s, "t", v, g.f, g.x)} :
                RanCall(r, "Session.insert", s, g.f, g.x)
    /\ UNCHANGED <<stack, mock>>

\* session.execute(sql)
SessionExecute ==
    /\ \E s \in Open("Database"), g \in {h \in CallFailures : ~h.f.close} :
          /\ session[s]._transaction = None =>
                Len(transaction) < MaxTransactions /\ Len(cursor) < MaxCursors
          /\ \E r \in {Session_execute(W, s, g.f, g.x)} :
                RanCall(r, "Session.execute", s, g.f, g.x)
    /\ UNCHANGED <<stack, mock>>

\* session.select(query)
SessionSelect ==
    /\ Len(select) < MaxSelects
    /\ \E s \in Open("Database") :
          Ran(Select_init(W, [kind |-> "Session", id |-> s]),
              "Select.__init__", None, NoExc, NoFailure, {})
    /\ UNCHANGED <<stack, mock, ins>>

NextSession ==
    \/ EnterSession \/ ExitSession
    \/ SessionSelect \/ EnterSelect \/ ExitSelect
    \/ SessionInsert \/ SessionExecute

SpecSession == InitSession /\ [][NextSession]_vars

----------------------------------------------------------------------------
\* The caller of Database.insert and Database.execute on one Database

\* db.insert(table, values)
DatabaseInsert ==
    /\ Len(conn) < MaxConns /\ Len(transaction) < MaxTransactions
    /\ Len(cursor) < MaxCursors
    /\ \E v \in CallValues, g \in CallFailures :
          \E r \in {Database_insert(W, 1, "t", v, g.f, g.x)} :
             RanCall(r, "Database.insert", 1, g.f, g.x)
    /\ UNCHANGED <<stack, mock>>

\* db.execute(sql)
DatabaseExecute ==
    /\ Len(conn) < MaxConns /\ Len(transaction) < MaxTransactions
    /\ Len(cursor) < MaxCursors
    /\ \E g \in CallFailures :
          \E r \in {Database_execute(W, 1, g.f, g.x)} :
             RanCall(r, "Database.execute", 1, g.f, g.x)
    /\ UNCHANGED <<stack, mock>>

NextDatabase == DatabaseInsert \/ DatabaseExecute

SpecDatabase == Init /\ [][NextDatabase]_vars

----------------------------------------------------------------------------
\* The caller that may enter its Database again inside a with db block

\* with db as session: whether or not a block of db is already open
EnterDatabaseAnew ==
    /\ Len(conn) < MaxConns
    /\ LET r == Database_enter(W, 1)
       IN /\ Ran(r, "Database.__enter__", 1, NoExc, NoFailure, {})
          /\ stack' = IF r.raised = NoExc
                      THEN Append(stack, Frame("Database", 1, r)) ELSE stack
    /\ UNCHANGED <<mock, ins>>

NextNested ==
    \/ EnterDatabaseAnew \/ ExitDatabase
    \/ EnterSession \/ ExitSession

SpecNested == Init /\ [][NextNested]_vars

----------------------------------------------------------------------------
\* Properties of the mock (checked under SpecMock)

\* the registered entries whose pattern matches the query text
Matching == {n \in 1..Len(mock.fakes) : re_match(mock.fakes[n].pattern, mock.query)}
FirstMatching == CHOOSE n \in Matching : \A m \in Matching : n <= m

\* C4: with rows R registered under the pattern that select resolves the query
\* to, the row source yields a prefix of R in order while a loop runs, exactly
\* R once a loop has ended, and nothing more in any later loop.
C4_MockYieldsRegisteredRows ==
    (mock.selected /\ Matching # {}) =>
        LET R == mock.fakes[FirstMatching].rows
        IN /\ Len(mock.out) <= Len(R)
           /\ mock.out = SubSeq(R, 1, Len(mock.out))
           /\ mock.stops >= 1 => mock.out = R

\* two different rows were yielded in order and a second loop has ended too
C4_Witness ==
    /\ mock.selected /\ Matching # {} /\ mock.stops = 2
    /\ Len(mock.out) = 2 /\ mock.out[1] # mock.out[2]
    /\ mock.out = mock.fakes[FirstMatching].rows

\* C5: when no registered pattern matches the query text (also when nothing
\* is registered), the row source is empty: no row is ever yielded and the
\* only exception is the StopIteration that ends a loop.
C5_MockUnmatchedIsEmpty ==
    (mock.selected /\ Matching = {}) =>
        /\ mock.src.data = <<>>
        /\ mock.out = <<>>
        /\ last.raised \in {NoExc, "StopIteration"}
        /\ last.op = "SelectMock.__next__" => last.raised = "StopIteration"

\* rows are registered, none under a matching pattern, and a loop has ended
C5_Witness ==
    /\ mock.selected /\ Matching = {} /\ mock.stops >= 1 /\ mock.out = <<>>
    /\ \E n \in 1..Len(mock.fakes) : mock.fakes[n].rows # <<>>

\* C6: when several registered patterns match the query text, the row source
\* holds the rows of the one registered first.
C6_MockFirstMatchWins ==
    (mock.selected /\ Cardinality(Matching) >= 2) =>
        /\ mock.src.data = mock.fakes[FirstMatching].rows
        /\ \A n \in 1..Len(mock.fakes) : n < FirstMatching =>
              ~re_match(mock.fakes[n].pattern, mock.query)

\* two patterns match, the later one with other rows than the first
C6_Witness ==
    /\ mock.selected /\ Cardinality(Matching) >= 2
    /\ \E n \in Matching : /\ n > FirstMatching
                            /\ mock.fakes[n].rows # mock.fakes[FirstMatching].rows
    /\ mock.src.data = mock.fakes[FirstMatching].rows /\ mock.src.data # <<>>

----------------------------------------------------------------------------
\* Properties of the insert helper (checked under SpecInsert)

\* C7: insert with an empty collection of rows returns without a call on the
\* cursor: no mogrify and no execute.
C7_InsertEmptyIsNoOp ==
    (ins.done /\ ins.values.rows = <<>>) =>
        /\ ins.log = <<>>
        /\ last.raised = NoExc

\* insert was called with an empty collection
C7_Witness ==
    /\ ins.done /\ ins.values.kind = "list" /\ ins.values.rows = <<>>
    /\ last.op = "insert"

\* the rows all have the key set of the first
SameKeys(rows) ==
    \A n \in 1..Len(rows) :
        {rows[n][a][1] : a \in 1..Len(rows[n])} = {rows[1][a][1] : a \in 1..Len(rows[1])}

\* C8: insert with N >= 1 rows sharing one key set makes N mogrify calls, the
\* n-th with the n-th row's values and the first row's columns as pattern,
\* then exactly one execute, whose statement names the first row's columns
\* and carries the N bound tuples in row order.
C8_InsertBindsEveryRowOnce ==
    (/\ ins.done /\ ins.values.kind = "list"
     /\ ins.values.rows # <<>> /\ SameKeys(ins.values.rows)) =>
        LET rows == ins.values.rows
            N == Len(rows)
            cols == [a \in 1..Len(rows[1]) |-> rows[1][a][1]]
        IN /\ last.raised = NoExc
           /\ Len(ins.log) = N + 1
           /\ \A n \in 1..N :
                 /\ ins.log[n].call = "mogrify"
                 /\ ins.log[n].pattern = cols
                 /\ \A a \in 1..Len(rows[n]) :
                       /\ ins.log[n].args[a][1] = rows[n][a][1]
                       /\ ins.log[n].args[a][2].v
                             = (IF rows[n][a][2].t = "UUID"
                                THEN <<"str", rows[n][a][2].v>> ELSE rows[n][a][2].v)
           /\ ins.log[N + 1].call = "execute"
           /\ ins.log[N + 1].table = ins.table
           /\ ins.log[N + 1].columns = cols
           /\ Len(ins.log[N + 1].tuples) = N
           /\ \A n \in 1..N : \A a \in 1..Len(cols) :
                 \E b \in 1..Len(rows[n]) :
                    /\ rows[n][b][1] = cols[a]
                    /\ ins.log[N + 1].tuples[n][a] = ins.log[n].args[b][2]

\* two rows with the same two keys in different order and different values
\* were inserted
C8_Witness ==
    /\ ins.done /\ ins.values.kind = "list" /\ Len(ins.values.rows) = 2
    /\ SameKeys(ins.values.rows)
    /\ Len(ins.values.rows[1]) = 2
    /\ ins.values.rows[1][1][1] # ins.values.rows[2][1][1]
    /\ ins.values.rows[1][1][2] # ins.values.rows[2][2][2]
    /\ Len(ins.log) = 3 /\ ins.log[3].call = "execute"

----------------------------------------------------------------------------
\* Properties of the singleton (checked under SpecGlobal)

\* C1: with a live Database/Session pair, GlobalSession(args) calls close() on
\* the pair's connection, and the get() that follows it opens a new connection
\* from the new arguments and returns a live Session on it.
C1_ReinitThenGetOpensNew ==
    [][/\ (/\ vars' # vars /\ last'.op = "GlobalSession.__init__"
           /\ last'.obj # NoArg /\ gs.session # None) =>
              conn'[session[gs.session]._conn].closeCalls
                  = conn[session[gs.session]._conn].closeCalls + 1
       /\ (/\ last.op = "GlobalSession.__init__" /\ last.closed # {}
           /\ last.raised = NoExc
           /\ vars' # vars /\ last'.op = "GlobalSession.get") =>
              /\ last'.ret # None
              /\ last'.opened # {}
              /\ \A c \in last'.opened : session'[last'.ret]._conn = c
              /\ ~conn'[session'[last'.ret]._conn].closed
              /\ conn'[session'[last'.ret]._conn].origin.id = gs'.args.id]_vars

C18_ReinitAlwaysSucceeds ==
    (last.op = "GlobalSession.__init__" /\ last.obj # NoArg /\ ~last.f.close) =>
        /\ last.raised = NoExc
        /\ gs.args = last.obj
        /\ \A c \in 1..Len(conn) : conn[c].closeCalls <= 1

----------------------------------------------------------------------------
\* Properties of the scopes (checked under Spec)

Count(seq, x) == Cardinality({n \in 1..Len(seq) : seq[n] = x})

\* the cursors driver connection c handed out are all closed
CursorsClosed(c) == \A k \in 1..Len(cursor) : cursor[k].conn = c => cursor[k].closed

\* C2: after a Select made from a Database is entered and exited, the cursor
\* is closed, the transaction is ended and the connection its entry opened is
\* closed, and the exit raises nothing of its own when no driver call raised.
C2_SelectFromDatabaseClosesAll ==
    (last.op = "Select.__exit__" /\ select[last.obj]._parent.kind = "Database") =>
        /\ \A c \in last.scope :
              /\ CursorsClosed(c) \/ last.f.curexit
              /\ Len(conn[c].exitCalls) = conn[c].enterCalls
              /\ conn[c].closeCalls >= 1
              /\ conn[c].closed \/ last.f.close
        /\ last.f = NoFailure => last.raised = NoExc

\* C3: exiting a Select made from a Transaction changes nothing but its own
\* cursor (sessions, transactions and connections stay as they were: no hook,
\* no commit, no rollback, no close); exiting a Select made from a Session
\* ends the transaction it began (one hook call, the Session's reference
\* cleared) and neither closes a connection nor touches another Session.
C3_SelectClosesOnlyItsOwn ==
    [][(stack # <<>> /\ Top.kind = "Select" /\ stack' = Pop) =>
        LET p == select[Top.obj]._parent
            k == select[Top.obj]._cursor
        IN /\ p.kind = "Transaction" =>
                /\ conn' = conn /\ session' = session /\ transaction' = transaction
                /\ database' = database
                /\ \A j \in 1..Len(cursor) : j # k => cursor'[j] = cursor[j]
                /\ cursor'[k].exitCalls = cursor[k].exitCalls + 1
           /\ p.kind = "Session" =>
                LET c == session[p.id]._conn
                IN /\ \A b \in 1..Len(conn) : b # c => conn'[b] = conn[b]
                   /\ conn'[c].closed = conn[c].closed
                   /\ conn'[c].closeCalls = conn[c].closeCalls
                   /\ conn'[c].exitCalls = Append(conn[c].exitCalls, last'.exc)
                   /\ \A z \in 1..Len(session) : z # p.id => session'[z] = session[z]
                   /\ session'[p.id] = [session[p.id] EXCEPT !._transaction = None]
                   /\ database' = database]_vars

\* a Select made from a Transaction was exited cleanly: its cursor is closed
\* and the Transaction is still the active one of its Session
C3_Witness ==
    /\ last.op = "Select.__exit__" /\ last.raised = NoExc
    /\ select[last.obj]._parent.kind = "Transaction"
    /\ \E s \in 1..Len(session) :
          /\ session[s]._transaction = select[last.obj]._parent.id
          /\ ~conn[session[s]._conn].closed
          /\ Len(conn[session[s]._conn].exitCalls) < conn[session[s]._conn].enterCalls
          /\ \E k \in 1..Len(cursor) : cursor[k].conn = session[s]._conn /\ cursor[k].closed

\* C9: after a Database scope is exited, close() was called on the connection
\* its entry opened (and closed it unless close() raised), whether or not the
\* body failed, and the Database holds no Session, also when close() raised.
C9_DatabaseExitClosesAndClears ==
    last.op = "Database.__exit__" =>
        /\ last.scope # {}
        /\ \A c \in last.scope :
              /\ conn[c].closeCalls = 1
              /\ conn[c].closed = ~last.f.close
        /\ last.raised = (IF last.f.close THEN ErrConnClose ELSE NoExc)
        /\ database[last.obj]._session = None

\* a Database scope whose body failed was exited and close() raised
C9_Witness ==
    /\ last.op = "Database.__exit__" /\ last.exc = BodyError
    /\ last.f.close /\ last.raised = ErrConnClose
    /\ database[last.obj]._session = None
    /\ \E c \in last.scope : conn[c].closeCalls = 1

\* C10: after a Session scope is exited, the connection's hook has been called
\* once for this scope (as often as the connection was entered), the last
\* call with the body's error information, committing after a clean body and
\* rolling back after a failed one; the Session holds no Transaction, also
\* when the hook raised, and entering it again succeeds.
C10_SessionExitEndsTransaction ==
    last.op = "Session.__exit__" =>
        LET c == session[last.obj]._conn
            calls == conn[c].exitCalls
        IN /\ Len(calls) = conn[c].enterCalls
           /\ calls[Len(calls)] = last.exc
           /\ conn[c].commits = Count(calls, NoExc)
           /\ conn[c].rollbacks = Count(calls, BodyError)
           /\ last.raised = (IF last.f.hook THEN ErrConnExit ELSE NoExc)
           /\ session[last.obj]._transaction = None
           /\ Session_enter(W, last.obj).raised = NoExc

\* a Session scope whose body failed was exited, the hook rolled back and raised
C10_Witness ==
    /\ last.op = "Session.__exit__" /\ last.exc = BodyError
    /\ last.f.hook /\ last.raised = ErrConnExit
    /\ session[last.obj]._transaction = None
    /\ conn[session[last.obj]._conn].rollbacks = 1

\* the outer scopes a Select made from a Session releases at its exit: the
\* Session's Transaction is ended and every begin on its connection has had
\* its commit-or-rollback hook called
SessionReleased(s) ==
    /\ session[s]._transaction = None
    /\ Len(conn[session[s]._conn].exitCalls) = conn[session[s]._conn].enterCalls

\* C12: when closing the cursor raises during a Select exit, the release of
\* every outer scope the Select opened is still attempted -- the Session's
\* Transaction for a Session parent; for a Database parent also the physical
\* connection, on which close() is called.
C12_CursorErrorStillReleasesOuter ==
    (last.op = "Select.__exit__" /\ last.f.curexit) =>
        LET p == select[last.obj]._parent
        IN /\ p.kind = "Session" => SessionReleased(p.id)
           /\ p.kind = "Database" =>
                 \A c \in last.scope :
                    /\ conn[c].closeCalls >= 1
                    /\ Len(conn[c].exitCalls) = conn[c].enterCalls

\* C13 as stated: when the cursor close raises during a Select exit and a
\* later release of an outer scope raises as well, the exception that reaches
\* the caller is the first one, the cursor close's.
C13_FirstReleaseErrorPropagates ==
    (/\ last.op = "Select.__exit__" /\ last.f.curexit /\ last.f.hook
     /\ select[last.obj]._parent.kind \in {"Session", "Database"}) =>
        last.raised = ErrCursorExit

\* C13, amended: when the cursor close raises during a Select exit and a
\* later release of an outer scope raises as well, the exception that reaches
\* the caller is that of the last release that raised: the connection hook's
\* if Session.__exit__ failed, else (Database parent) the assertion of
\* Transaction.__exit__.
C13_LastReleaseErrorPropagates ==
    (last.op = "Select.__exit__" /\ last.f.curexit) =>
        LET p == select[last.obj]._parent
        IN /\ (p.kind \in {"Session", "Database"} /\ last.f.hook) =>
                 last.raised = ErrConnExit
           /\ (p.kind = "Database" /\ ~last.f.hook) =>
                 last.raised = "AssertionError"

\* a Select made from a Session was left, the cursor's close raised, then the
\* connection's hook raised, and the hook's exception reached the caller
C13_Witness ==
    /\ last.op = "Select.__exit__" /\ last.f.curexit /\ last.f.hook
    /\ select[last.obj]._parent.kind = "Session"
    /\ last.raised = ErrConnExit
    /\ \E k \in 1..Len(cursor) : cursor[k].exitCalls = 1 /\ ~cursor[k].closed

\* C14: after every Select exit, whether it ended normally or a release in it
\* raised, the Select's _session, _transaction and _cursor are None, and a
\* fresh entry of the same Select (same parent, driver working) succeeds and
\* takes a new cursor.
C14_SelectReusableAfterExit ==
    last.op = "Select.__exit__" =>
        LET i == last.obj
            r == Select_enter(W, i, NoFailure)
        IN /\ select[i]._session = None
           /\ select[i]._transaction = None
           /\ select[i]._cursor = None
           /\ r.raised = NoExc
           /\ r.w.select[i]._cursor = Len(cursor) + 1
           /\ r.w.cursor[Len(cursor) + 1].entered

\* a Select whose earlier exit raised was entered again and holds a second,
\* fresh cursor
C14_Witness ==
    /\ last.op = "Select.__enter__" /\ last.raised = NoExc
    /\ Len(select) = 1 /\ Len(cursor) = 2
    /\ cursor[1].exitCalls = 1 /\ ~cursor[1].closed
    /\ select[last.obj]._cursor = 2 /\ cursor[2].entered /\ ~cursor[2].closed

\* C17: when a Select entry fails part-way (the Session's Transaction begun,
\* for a Database parent the connection opened, then cursor() raises), every
\* scope the entry had opened is released: the Session has no active
\* Transaction, close() was called on each connection the entry opened, and
\* the same entry, tried again with the driver working, succeeds.
C17_FailedEntryReleasesAll ==
    (last.op = "Select.__enter__" /\ last.raised = ErrCursor) =>
        LET p == select[last.obj]._parent
        IN /\ p.kind = "Session" => session[p.id]._transaction = None
           /\ \A c \in last.opened : conn[c].closeCalls >= 1
           /\ \A s \in 1..Len(session) :
                 session[s]._conn \in last.opened => session[s]._transaction = None
           /\ Select_enter(W, last.obj, NoFailure).raised = NoExc

----------------------------------------------------------------------------
\* Properties of the Session's entry guard (checked under SpecSession)

\* the operation that ran last entered Session s: Session.__enter__ itself,
\* Session.insert, Session.execute, or the entry of a Select made from s
EntersSession(s) ==
    \/ last.op \in {"Session.__enter__", "Session.insert", "Session.execute"} /\ last.obj = s
    \/ /\ last.op = "Select.__enter__"
       /\ select[last.obj]._parent = [kind |-> "Session", id |-> s]

\* C11: entering a Session whose Transaction is active, directly or through
\* Session.insert, Session.execute or the entry of a Select made from it,
\* raises AssertionError, makes no driver call (no second begin, no cursor)
\* and leaves the Session's Transaction reference as it was.
C11_SessionEntryWhileActiveAsserts ==
    [][\A s \in 1..Len(session) :
          (session[s]._transaction # None /\ EntersSession(s)') =>
              /\ last'.raised = "AssertionError"
              /\ conn' = conn /\ cursor' = cursor
              /\ session' = session /\ transaction' = transaction]_vars

\* Session.insert was called with rows to write while the Session's
\* Transaction was active, and the assertion stopped it
C11_Witness ==
    /\ last.op = "Session.insert" /\ last.raised = "AssertionError"
    /\ session[last.obj]._transaction # None
    /\ ins.done /\ ins.log = <<>>
    /\ conn[session[last.obj]._conn].enterCalls = 1

----------------------------------------------------------------------------
\* Properties of Database.insert and Database.execute (checked under
\* SpecDatabase)

\* C15: every Database.insert or Database.execute call is a Session lifetime
\* of its own: it calls the connection factory exactly once, and when it
\* returns or raises close() has been called on the connection it opened
\* (the connection is closed unless close() itself raised) and the Database
\* holds no Session.  So after any sequence of calls there are as many
\* connections as calls made, each was begun at most once, close() was called
\* on each exactly once, and none is held.
C15_DatabaseCallIsOneSessionLifetime ==
    /\ last.op \in {"Database.insert", "Database.execute"} =>
          /\ last.opened = {Len(conn)}
          /\ last.closed = last.opened
          /\ ~last.f.close => conn[Len(conn)].closed
          /\ last.f.close => last.raised = ErrConnClose
    /\ \A c \in 1..Len(conn) :
          /\ conn[c].closeCalls = 1
          /\ conn[c].enterCalls = 1
          /\ Len(conn[c].exitCalls) = 1
    /\ \A d \in 1..Len(database) : database[d]._session = None
    /\ \A s \in 1..Len(session) : session[s]._transaction = None
    /\ \A s, t \in 1..Len(session) : s # t => session[s]._conn # session[t]._conn

\* after an earlier call, a Database.insert whose rows could not be bound
\* raised, and its connection was rolled back and closed all the same
C15_Witness ==
    /\ last.op = "Database.insert" /\ last.raised = "KeyError"
    /\ Len(conn) = 2 /\ last.opened = {2}
    /\ conn[2].closed /\ conn[2].rollbacks = 1 /\ conn[1].closeCalls = 1

----------------------------------------------------------------------------
\* Properties of re-entering a Database (checked under SpecNested)

\* C19: a Database has at most one Session open at any time: entering it
\* while the block of an earlier entry is still open raises, opens no
\* connection and leaves the held Session the earlier entry's.
C19_OneSessionPerDatabase ==
    /\ Cardinality({c \in 1..Len(conn) : conn[c].closeCalls = 0}) <= 1
    /\ LET earlier == {n \in 1..Len(stack) : /\ stack[n].kind = "Database"
                                              /\ stack[n].obj = last.obj
                                              /\ stack[n].ret # last.ret}
       IN (last.op = "Database.__enter__" /\ earlier # {}) =>
              /\ last.raised # NoExc
              /\ last.opened = {}
              /\ \E n \in earlier : database[last.obj]._session = stack[n].ret

====
